---- MODULE Spec2Model ----
(***************************************************************************)
(* Producer / consumer / supervisor / logger tasks of the two program      *)
(* variants (STR_CP2_Sistema_de_Dados_Robusto.c, queue of 10, and          *)
(* hello_world_main.c, queue of 1) around a FreeRTOS queue, an event       *)
(* group and the task watchdog.                                            *)
(*                                                                         *)
(* Every FreeRTOS call on a shared object (xQueueSend, xQueueReceive,      *)
(* xQueueReset, xEventGroupSetBits, xEventGroupWaitBits) is one atomic     *)
(* step; the task-local statements that follow it (printf, counters,       *)
(* free, esp_task_wdt_reset, vTaskDelay) belong to the same step.          *)
(***************************************************************************)
EXTENDS Integers, Naturals, Sequences, FiniteSets, TLC

VARIABLES
    variant,            \* which source file is running: "STR" or "hello"
    timed,              \* TRUE: durations are kept, with zero processing delay;
                        \* FALSE: any interleaving, no duration is tracked
    fila,               \* the queue: sequence of int records, head first
    event_supervisor,   \* the event group: set of bits that are set
    value,              \* Task1's local value
    pc1,                \* Task1: "send" | "ok" | "fail"
    attempts,           \* history: number of xQueueSend calls Task1 has made
    timeout,            \* Task2's local miss counter
    ptr,                \* Task2's scratch slot: "NULL" | "held" | "freed" |
                        \* "double free"
    pc2,                \* Task2's position
    before,             \* history: timeout when the current Task2 iteration began
    acts,               \* history: the bits the current Task2 iteration has set,
                        \* and "QRESET" once it has called xQueueReset
    cycle,              \* history: Task2 iterations begun in a run of misses only
    received,           \* history: the last value xQueueReceive stored in
                        \* *ptr, -1 before the first
    halted,             \* "no" | "esp_restart" | "wdt"
    timer,              \* per task: remaining vTaskDelay in ms
    since_reset         \* per task: ms slept since its last esp_task_wdt_reset

vars == <<variant, timed, fila, event_supervisor, value, pc1, attempts, timeout,
          ptr, pc2, before, acts, cycle, received, halted, timer, since_reset>>

----------------------------------------------------------------------------
\* Bounds of the model
MaxValue == 11          \* Task1 makes at most this many cycles
MaxCycle == 40          \* iterations counted in a run of misses

\* Program constants
WDT_TIMEOUT_MS == 5000
CapacitySTR == 10
CapacityHello == 1
T1PeriodFivefold == 5 * 1000    \* mutant: a period five times too long
T1Period == 1000
T2Period == 500
T2Backoff == 500
T2RestartDelay == 100
T3Period == 2000
T4Period == 3000
LightMisses == 10
ModerateMisses == 20
AggressiveMisses == 30

Tasks == 1..4

BIT_TASK1_OK == "BIT_TASK1_OK"
BIT_TASK1_FAIL == "BIT_TASK1_FAIL"
BIT_TASK2_OK == "BIT_TASK2_OK"
BIT_TASK2_TIMEOUT == "BIT_TASK2_TIMEOUT"
BIT_TASK2_RESET == "BIT_TASK2_RESET"
BIT_TASK2_RESTART == "BIT_TASK2_RESTART"

AllBits == {BIT_TASK1_OK, BIT_TASK1_FAIL, BIT_TASK2_OK, BIT_TASK2_TIMEOUT,
            BIT_TASK2_RESET, BIT_TASK2_RESTART}

\* Mutant: a mask that leaves one bit out
WaitMaskShort == {BIT_TASK1_OK, BIT_TASK2_OK, BIT_TASK2_TIMEOUT, BIT_TASK2_RESET,
                  BIT_TASK2_RESTART}

\* The mask Task3 passes to xEventGroupWaitBits
WaitMask == {BIT_TASK1_OK, BIT_TASK1_FAIL, BIT_TASK2_OK, BIT_TASK2_TIMEOUT,
             BIT_TASK2_RESET, BIT_TASK2_RESTART}

\* xQueueCreate(n, sizeof(int))
Capacity == IF variant = "STR" THEN CapacitySTR ELSE CapacityHello

\* Mutant: no variant resets the counter
ResetsCounterNever == FALSE
\* Only the STR variant has "timeout = 0" after the queue reset
ResetsCounter == variant = "STR"

----------------------------------------------------------------------------
\* FreeRTOS primitives, as the calls in the source use them

\* xQueueSend(q, &v, 0): TRUE and appended, or FALSE and unchanged when full
\* Mutant: a queue that takes one record more than its capacity
QueueFullOffByOne(q) == Len(q) > Capacity
QueueFull(q) == Len(q) >= Capacity
\* Mutant: the send that does not look at the occupancy
xQueueSendUnchecked(q, v) == Append(q, v)
\* Mutant: the send that puts the record at the head (xQueueSendToFront)
xQueueSendToFront(q, v) == IF QueueFull(q) THEN q ELSE <<v>> \o q
xQueueSend(q, v) == IF QueueFull(q) THEN q ELSE Append(q, v)

\* xQueueReceive(q, ptr, 0): pdTRUE iff the queue is not empty
xQueueReceive(q) == IF q = <<>> THEN q ELSE Tail(q)

\* xQueueReset(q)
xQueueReset(q) == <<>>

\* xEventGroupSetBits(ev, b)
xEventGroupSetBits(ev, b) == ev \cup {b}

\* xEventGroupWaitBits(ev, mask, pdTRUE, pdFALSE, 0): returns the value of the
\* event group; the bits of mask are cleared when one of them was set.
WaitBitsReturn(ev) == ev
WaitBitsClear(ev, mask) == IF ev \cap mask # {} THEN ev \ mask ELSE ev

\* free(p): releases a held slot, does nothing on NULL; on a slot already
\* released it is a double free
free(p) ==
    CASE p = "held" -> "freed"
      [] p = "freed" -> "double free"
      [] OTHER -> p

\* vTaskDelay(ms) of task t
Delay(t, ms) == [timer EXCEPT ![t] = IF timed THEN ms ELSE 0]

\* esp_task_wdt_reset() followed by vTaskDelay(ms)
ResetThenSleep(t, ms) == [since_reset EXCEPT ![t] = IF timed THEN ms ELSE 0]

\* vTaskDelay(ms) without an esp_task_wdt_reset() before it
SleepOnly(t, ms) == [since_reset EXCEPT ![t] = IF timed THEN @ + ms ELSE 0]

\* The task watchdog (trigger_panic = true) has not fired and nobody restarted
Running == halted = "no" /\ \A t \in Tasks : since_reset[t] <= WDT_TIMEOUT_MS

Ready(t) == Running /\ timer[t] = 0

----------------------------------------------------------------------------
InitCommon ==
    /\ variant \in {"STR", "hello"}
    /\ fila = <<>>
    /\ event_supervisor = {}
    /\ value = 0
    /\ pc1 = "send"
    /\ attempts = 0
    /\ timeout = 0
    /\ ptr = "NULL"
    /\ pc2 = "malloc"
    /\ before = 0
    /\ acts = {}
    /\ cycle = 0
    /\ received = -1
    /\ halted = "no"
    /\ timer = [t \in Tasks |-> 0]
    /\ since_reset = [t \in Tasks |-> 0]

Init == InitCommon /\ timed = FALSE

InitTimed == InitCommon /\ timed = TRUE

----------------------------------------------------------------------------
\* Task1: xQueueSend(fila, &value, 0)
T1Send ==
    /\ Ready(1) /\ pc1 = "send" /\ value < MaxValue
    /\ fila' = xQueueSend(fila, value)
    /\ pc1' = IF QueueFull(fila) THEN "fail" ELSE "ok"
    /\ attempts' = attempts + 1
    /\ UNCHANGED <<variant, timed, event_supervisor, value, timeout, ptr, pc2,
                   before, acts, cycle, halted, timer, since_reset,
                   received>>

\* Mutant: the end of cycle that increments value only after a delivery
T1EndCycleRetries ==
    /\ value' = IF pc1 = "ok" THEN value + 1 ELSE value
    /\ pc1' = "send"
    /\ timer' = Delay(1, T1Period)
    /\ since_reset' = ResetThenSleep(1, T1Period)

\* Task1's end of cycle: value++, esp_task_wdt_reset, vTaskDelay(1000)
T1EndCycle ==
    /\ value' = value + 1
    /\ pc1' = "send"
    /\ timer' = Delay(1, T1Period)
    /\ since_reset' = ResetThenSleep(1, T1Period)

\* Mutant: the failed send signals success
T1FailSetsOk ==
    /\ Ready(1) /\ pc1 = "fail"
    /\ event_supervisor' = xEventGroupSetBits(event_supervisor, BIT_TASK1_OK)
    /\ T1EndCycle
    /\ UNCHANGED <<variant, timed, fila, attempts, timeout, ptr, pc2, before,
                   acts, cycle, halted,
                   received>>

\* Task1, send failed: printf, xEventGroupSetBits(BIT_TASK1_FAIL), end of cycle
T1Fail ==
    /\ Ready(1) /\ pc1 = "fail"
    /\ event_supervisor' = xEventGroupSetBits(event_supervisor, BIT_TASK1_FAIL)
    /\ T1EndCycle
    /\ UNCHANGED <<variant, timed, fila, attempts, timeout, ptr, pc2, before,
                   acts, cycle, halted,
                   received>>

\* Task1, send succeeded: printf, xEventGroupSetBits(BIT_TASK1_OK), end of cycle
T1Ok ==
    /\ Ready(1) /\ pc1 = "ok"
    /\ event_supervisor' = xEventGroupSetBits(event_supervisor, BIT_TASK1_OK)
    /\ T1EndCycle
    /\ UNCHANGED <<variant, timed, fila, attempts, timeout, ptr, pc2, before,
                   acts, cycle, halted,
                   received>>

----------------------------------------------------------------------------
\* Task2's end of cycle: free(ptr), esp_task_wdt_reset, vTaskDelay(500).
\* The conjunct that uses it sets timeout' first.
T2EndCycle ==
    /\ ptr' = (IF free(ptr) = "freed" THEN "NULL" ELSE free(ptr))
    /\ pc2' = "malloc"
    /\ before' = timeout'
    /\ timer' = Delay(2, T2Period)
    /\ since_reset' = ResetThenSleep(2, T2Period)

\* Task2: malloc(sizeof(int)) returns a slot
T2MallocOk ==
    /\ Ready(2) /\ pc2 = "malloc"
    /\ ptr' = "held"
    /\ pc2' = "receive"
    /\ before' = timeout
    /\ acts' = {}
    /\ cycle' = IF cycle = -1 \/ cycle >= MaxCycle THEN -1 ELSE cycle + 1
    /\ UNCHANGED <<variant, timed, fila, event_supervisor, value, pc1, attempts,
                   timeout, halted, timer, since_reset,
                   received>>

\* Mutant: the failed allocation counts as a miss
T2MallocFailCounts ==
    /\ Ready(2) /\ pc2 = "malloc"
    /\ ptr' = "NULL"
    /\ pc2' = "malloc"
    /\ timeout' = IF timeout < AggressiveMisses THEN timeout + 1 ELSE timeout
    /\ before' = timeout'
    /\ acts' = {}
    /\ cycle' = -1
    /\ timer' = Delay(2, T2Backoff)
    /\ since_reset' = SleepOnly(2, T2Backoff)
    /\ UNCHANGED <<variant, timed, fila, event_supervisor, value, pc1, attempts,
                   halted,
                   received>>

\* Task2: malloc returns NULL: printf, vTaskDelay(500), continue
T2MallocFail ==
    /\ Ready(2) /\ pc2 = "malloc"
    /\ ptr' = "NULL"
    /\ pc2' = "malloc"
    /\ before' = timeout
    /\ acts' = {}
    /\ cycle' = -1
    /\ timer' = Delay(2, T2Backoff)
    /\ since_reset' = SleepOnly(2, T2Backoff)
    /\ UNCHANGED <<variant, timed, fila, event_supervisor, value, pc1, attempts,
                   timeout, halted,
                   received>>

\* Mutant: the successful receive that forgets "timeout = 0"
T2ReceiveOkKeepsCount ==
    /\ Ready(2) /\ pc2 = "receive" /\ fila # <<>>
    /\ fila' = xQueueReceive(fila)
    /\ received' = Head(fila)
    /\ pc2' = "ok"
    /\ cycle' = -1
    /\ UNCHANGED <<variant, timed, event_supervisor, value, pc1, attempts, timeout,
                   ptr, before, acts, halted, timer, since_reset>>

\* Task2: xQueueReceive(fila, ptr, 0) == pdTRUE; timeout = 0
T2ReceiveOk ==
    /\ Ready(2) /\ pc2 = "receive" /\ fila # <<>>
    /\ fila' = xQueueReceive(fila)
    /\ received' = Head(fila)
    /\ timeout' = 0
    /\ pc2' = "ok"
    /\ cycle' = -1
    /\ UNCHANGED <<variant, timed, event_supervisor, value, pc1, attempts, ptr,
                   before, acts, halted, timer, since_reset>>

\* Mutant: thresholds compared with >= instead of ==
MissBranchAtLeast(n) ==
    IF n >= LightMisses /\ n < ModerateMisses THEN "light"
    ELSE IF n >= ModerateMisses /\ n < AggressiveMisses THEN "moderate"
    ELSE IF n >= AggressiveMisses THEN "aggressive"
    ELSE "malloc"

\* Where a miss that brought the counter to n goes next
MissBranch(n) ==
    IF n = LightMisses THEN "light"
    ELSE IF n = ModerateMisses THEN "moderate"
    ELSE IF n = AggressiveMisses THEN "aggressive"
    ELSE "malloc"

\* Mutant: a receive that blocks on the empty queue (portMAX_DELAY) instead
\* of returning at once
T2ReceiveMissBlocks ==
    /\ Ready(2) /\ pc2 = "receive" /\ fila = <<>>
    /\ FALSE
    /\ UNCHANGED vars

\* Task2: xQueueReceive fails; timeout++; no threshold met: end of cycle
T2ReceiveMiss ==
    /\ Ready(2) /\ pc2 = "receive" /\ fila = <<>>
    /\ timeout' = timeout + 1
    /\ IF MissBranch(timeout') = "malloc"
          THEN T2EndCycle
          ELSE /\ pc2' = MissBranch(timeout')
               /\ UNCHANGED <<ptr, before, timer, since_reset,
                   received>>
    /\ UNCHANGED <<variant, timed, fila, event_supervisor, value, pc1, attempts,
                   acts, cycle, halted,
                   received>>

\* Task2, received: printf, xEventGroupSetBits(BIT_TASK2_OK), end of cycle
T2Ok ==
    /\ Ready(2) /\ pc2 = "ok"
    /\ event_supervisor' = xEventGroupSetBits(event_supervisor, BIT_TASK2_OK)
    /\ acts' = acts \cup {BIT_TASK2_OK}
    /\ timeout' = timeout
    /\ T2EndCycle
    /\ UNCHANGED <<variant, timed, fila, value, pc1, attempts, cycle, halted,
                   received>>

\* Task2, timeout == 10: printf, xEventGroupSetBits(BIT_TASK2_TIMEOUT), end of cycle
T2Light ==
    /\ Ready(2) /\ pc2 = "light"
    /\ event_supervisor' = xEventGroupSetBits(event_supervisor, BIT_TASK2_TIMEOUT)
    /\ acts' = acts \cup {BIT_TASK2_TIMEOUT}
    /\ timeout' = timeout
    /\ T2EndCycle
    /\ UNCHANGED <<variant, timed, fila, value, pc1, attempts, cycle, halted,
                   received>>

\* Task2, timeout == 20: printf, xQueueReset(fila)
T2Moderate ==
    /\ Ready(2) /\ pc2 = "moderate"
    /\ fila' = xQueueReset(fila)
    /\ acts' = acts \cup {"QRESET"}
    /\ pc2' = "moderate_flag"
    /\ UNCHANGED <<variant, timed, event_supervisor, value, pc1, attempts, timeout,
                   ptr, before, cycle, halted, timer, since_reset,
                   received>>

\* Task2, timeout == 20: xEventGroupSetBits(BIT_TASK2_RESET), (STR: timeout = 0),
\* end of cycle
T2ModerateFlag ==
    /\ Ready(2) /\ pc2 = "moderate_flag"
    /\ event_supervisor' = xEventGroupSetBits(event_supervisor, BIT_TASK2_RESET)
    /\ acts' = acts \cup {BIT_TASK2_RESET}
    /\ timeout' = IF ResetsCounter THEN 0 ELSE timeout
    /\ T2EndCycle
    /\ UNCHANGED <<variant, timed, fila, value, pc1, attempts, cycle, halted,
                   received>>

\* Mutant: the third level without its free(ptr)
T2AggressiveNoFree ==
    /\ Ready(2) /\ pc2 = "aggressive"
    /\ event_supervisor' = xEventGroupSetBits(event_supervisor, BIT_TASK2_RESTART)
    /\ acts' = acts \cup {BIT_TASK2_RESTART}
    /\ pc2' = "restart"
    /\ timer' = IF variant = "STR" THEN Delay(2, T2RestartDelay) ELSE timer
    /\ since_reset' = IF variant = "STR" THEN SleepOnly(2, T2RestartDelay)
                                         ELSE since_reset
    /\ UNCHANGED <<variant, timed, fila, value, pc1, attempts, timeout, ptr, before,
                   cycle, halted,
                   received>>

\* Task2, timeout == 30: printf, xEventGroupSetBits(BIT_TASK2_RESTART), free(ptr),
\* (STR: vTaskDelay(100))
T2Aggressive ==
    /\ Ready(2) /\ pc2 = "aggressive"
    /\ event_supervisor' = xEventGroupSetBits(event_supervisor, BIT_TASK2_RESTART)
    /\ acts' = acts \cup {BIT_TASK2_RESTART}
    /\ ptr' = free(ptr)
    /\ pc2' = "restart"
    /\ timer' = IF variant = "STR" THEN Delay(2, T2RestartDelay) ELSE timer
    /\ since_reset' = IF variant = "STR" THEN SleepOnly(2, T2RestartDelay)
                                         ELSE since_reset
    /\ UNCHANGED <<variant, timed, fila, value, pc1, attempts, timeout, before,
                   cycle, halted,
                   received>>

\* Mutant: an esp_restart that returns, so that the free(ptr) after the
\* if/else and the rest of the loop body run
T2RestartReturns ==
    /\ Ready(2) /\ pc2 = "restart"
    /\ timeout' = timeout
    /\ T2EndCycle
    /\ UNCHANGED <<variant, timed, fila, event_supervisor, value, pc1, attempts,
                   acts, cycle, halted,
                   received>>

\* Task2: esp_restart(), which does not return
T2Restart ==
    /\ Ready(2) /\ pc2 = "restart"
    /\ halted' = "esp_restart"
    /\ UNCHANGED <<variant, timed, fila, event_supervisor, value, pc1, attempts,
                   timeout, ptr, pc2, before, acts, cycle, timer,
                   since_reset,
                   received>>

----------------------------------------------------------------------------
\* Mutant: the second test looks at BIT_TASK1_OK again
LinesCopyPaste(bits) ==
    (IF BIT_TASK1_OK \in bits THEN <<"Task1 OK">> ELSE <<>>)
    \o (IF BIT_TASK1_OK \in bits THEN <<"Task1 falhou no envio">> ELSE <<>>)
    \o (IF BIT_TASK2_OK \in bits THEN <<"Task2 OK">> ELSE <<>>)
    \o (IF BIT_TASK2_TIMEOUT \in bits THEN <<"Task2 em timeout leve">> ELSE <<>>)
    \o (IF BIT_TASK2_RESET \in bits THEN <<"Task2 resetou a fila">> ELSE <<>>)
    \o (IF BIT_TASK2_RESTART \in bits THEN <<"Task2 reiniciou o sistema">> ELSE <<>>)

\* Task3's six "if (bits & BIT) printf(...)": the lines one poll prints
Lines(bits) ==
    (IF BIT_TASK1_OK \in bits THEN <<"Task1 OK">> ELSE <<>>)
    \o (IF BIT_TASK1_FAIL \in bits THEN <<"Task1 falhou no envio">> ELSE <<>>)
    \o (IF BIT_TASK2_OK \in bits THEN <<"Task2 OK">> ELSE <<>>)
    \o (IF BIT_TASK2_TIMEOUT \in bits THEN <<"Task2 em timeout leve">> ELSE <<>>)
    \o (IF BIT_TASK2_RESET \in bits THEN <<"Task2 resetou a fila">> ELSE <<>>)
    \o (IF BIT_TASK2_RESTART \in bits THEN <<"Task2 reiniciou o sistema">> ELSE <<>>)

\* Mutant: the poll without its esp_task_wdt_reset
T3PollNoRefresh ==
    /\ Ready(3)
    /\ event_supervisor' = WaitBitsClear(event_supervisor, WaitMask)
    /\ timer' = Delay(3, T3Period)
    /\ since_reset' = SleepOnly(3, T3Period)
    /\ UNCHANGED <<variant, timed, fila, value, pc1, attempts, timeout, ptr, pc2,
                   before, acts, cycle, halted,
                   received>>

\* Task3: bits = xEventGroupWaitBits(event_supervisor, mask, pdTRUE, pdFALSE, 0),
\* the six printf on bits, esp_task_wdt_reset, vTaskDelay(2000)
T3Poll ==
    /\ Ready(3)
    /\ event_supervisor' = WaitBitsClear(event_supervisor, WaitMask)
    /\ timer' = Delay(3, T3Period)
    /\ since_reset' = ResetThenSleep(3, T3Period)
    /\ UNCHANGED <<variant, timed, fila, value, pc1, attempts, timeout, ptr, pc2,
                   before, acts, cycle, halted,
                   received>>

\* Task4: esp_chip_info, printf, esp_task_wdt_reset, vTaskDelay(3000)
T4Log ==
    /\ Ready(4)
    /\ timer' = Delay(4, T4Period)
    /\ since_reset' = ResetThenSleep(4, T4Period)
    /\ UNCHANGED <<variant, timed, fila, event_supervisor, value, pc1, attempts,
                   timeout, ptr, pc2, before, acts, cycle, halted,
                   received>>

----------------------------------------------------------------------------
\* The task watchdog fires: a task slept past the deadline without a reset
WdtPanic ==
    /\ halted = "no"
    /\ \E t \in Tasks : since_reset[t] > WDT_TIMEOUT_MS
    /\ halted' = "wdt"
    /\ UNCHANGED <<variant, timed, fila, event_supervisor, value, pc1, attempts,
                   timeout, ptr, pc2, before, acts, cycle, timer,
                   since_reset,
                   received>>

\* A task that the model still lets run
Live(t) == ~(t = 1 /\ pc1 = "send" /\ value >= MaxValue)

Min(S) == CHOOSE x \in S : \A y \in S : x <= y

\* Time passes, up to the next wake-up, when every task is in its vTaskDelay
Tick ==
    /\ timed /\ Running
    /\ \A t \in Tasks : Live(t) => timer[t] > 0
    /\ \E t \in Tasks : timer[t] > 0
    /\ LET dt == Min({timer[t] : t \in {u \in Tasks : timer[u] > 0}})
       IN timer' = [t \in Tasks |-> IF timer[t] > dt THEN timer[t] - dt ELSE 0]
    /\ UNCHANGED <<variant, timed, fila, event_supervisor, value, pc1, attempts,
                   timeout, ptr, pc2, before, acts, cycle, halted,
                   since_reset,
                   received>>

Next ==
    \/ T1Send \/ T1Fail \/ T1Ok
    \/ T2MallocOk \/ T2MallocFail \/ T2ReceiveOk \/ T2ReceiveMiss \/ T2Ok
    \/ T2Light \/ T2Moderate \/ T2ModerateFlag \/ T2Aggressive \/ T2Restart
    \/ T3Poll \/ T4Log

NextTimed == Next \/ WdtPanic \/ Tick

Spec == Init /\ [][Next]_vars

SpecTimed == InitTimed /\ [][NextTimed]_vars

\* The steps of each task
Task1Step == T1Send \/ T1Fail \/ T1Ok
Task2Step ==
    \/ T2MallocOk \/ T2MallocFail \/ T2ReceiveOk \/ T2ReceiveMiss \/ T2Ok
    \/ T2Light \/ T2Moderate \/ T2ModerateFlag \/ T2Aggressive \/ T2Restart

\* The four tasks have the same priority (5): the scheduler shares the
\* processor among the ready ones, so a task that stays ready gets to run
Fairness ==
    /\ WF_vars(Task1Step) /\ WF_vars(Task2Step)
    /\ WF_vars(T3Poll) /\ WF_vars(T4Log)

\* The periods kept, every ready task eventually runs, time does not stop and
\* an expired watchdog fires
SpecTimedFair == SpecTimed /\ Fairness /\ WF_vars(Tick) /\ WF_vars(WdtPanic)
----------------------------------------------------------------------------
\* Properties

\* The bits the three thresholds set
EscalationBits == {BIT_TASK2_TIMEOUT, BIT_TASK2_RESET, BIT_TASK2_RESTART}

\* C1: in every reachable state the queue holds between 0 and Capacity records
\* (10 in the STR variant, 1 in the hello variant).
C1_OccupancyWithinCapacity ==
    /\ Len(fila) >= 0
    /\ Len(fila) <= Capacity
    /\ Capacity = (IF variant = "STR" THEN 10 ELSE 1)

\* C1 witness: the queue of 10 is full
C1_Witness == variant = "STR" /\ Len(fila) = CapacitySTR

\* What iteration k of a run of misses only does, as the claim C2 states it
C2_ClaimedActs(k) ==
    IF k = 10 THEN {BIT_TASK2_TIMEOUT}
    ELSE IF k = 20 THEN {"QRESET", BIT_TASK2_RESET}
    ELSE IF k = 30 THEN {BIT_TASK2_RESTART}
    ELSE {}

\* What iteration k of a run of misses only does in each variant: the STR
\* variant starts counting again after the 20th miss
C2_VariantActs(k) ==
    IF variant = "STR"
      THEN IF k % 20 = 10 THEN {BIT_TASK2_TIMEOUT}
           ELSE IF k % 20 = 0 THEN {"QRESET", BIT_TASK2_RESET}
           ELSE {}
      ELSE C2_ClaimedActs(k)

\* Task2 has finished the iteration it began: it sleeps, or it restarted
C2_IterationOver == pc2 = "malloc" \/ halted = "esp_restart"

\* C2 as claimed: in a run of Task2 iterations that all allocate and all miss,
\* iteration 10 sets TIMEOUT, 20 resets the queue and sets RESET, 30 sets
\* RESTART and restarts, and no other iteration sets an escalation bit.
C2_Original ==
    (cycle >= 1 /\ C2_IterationOver) =>
        /\ acts = C2_ClaimedActs(cycle)
        /\ (cycle = 30) = (halted = "esp_restart")

\* C2 amended: the same in the hello variant; in the STR variant iteration 10
\* sets TIMEOUT, 20 resets the queue and sets RESET, 30 sets TIMEOUT again,
\* and nothing sets RESTART or restarts. Every bit an iteration records is set
\* in the event group by the step that records it, and the step that records
\* the queue reset leaves the queue empty.
C2_Amended ==
    /\ []((cycle >= 1 /\ C2_IterationOver) =>
            /\ acts = C2_VariantActs(cycle)
            /\ (cycle = 30 /\ variant = "hello") = (halted = "esp_restart"))
    /\ [][cycle >= 1 =>
            /\ (acts' \ acts) \ {"QRESET"} \subseteq event_supervisor'
            /\ ("QRESET" \in acts' \ acts => fila' = <<>>)]_vars

\* C2 witness: the hello variant restarted in iteration 30 of such a run
C2_Witness == variant = "hello" /\ cycle = 30 /\ halted = "esp_restart"

\* C3: a successful receive sets timeout to 0 whatever it was, the iteration
\* then sets BIT_TASK2_OK and nothing else, and ends with timeout = 0.
C3_SuccessGoesToNormal ==
    /\ [](pc2 = "ok" => timeout = 0 /\ acts = {})
    /\ [][(pc2 = "receive" /\ pc2' # "receive" /\ fila # <<>>) =>
            (pc2' = "ok" /\ timeout' = 0 /\ acts' = {})]_vars
    /\ [][(pc2 = "ok" /\ pc2' # "ok") =>
            /\ pc2' = "malloc"
            /\ timeout' = 0
            /\ acts' = {BIT_TASK2_OK}
            /\ event_supervisor' = event_supervisor \cup {BIT_TASK2_OK}
            /\ halted' = "no"]_vars

\* C3 witness: a receive succeeded after 29 misses in a row
C3_Witness == pc2 = "ok" /\ before = AggressiveMisses - 1 /\ timeout = 0
\* Task2's step from the top of its loop back to it: the failed allocation
\* (seen in the timed specification, where it starts the backoff delay)
AllocFailStep == pc2 = "malloc" /\ pc2' = "malloc" /\ timer[2] = 0 /\ timer'[2] > 0

\* C4 as claimed: Task2 refreshes the watchdog before each backoff sleep, so
\* the sleep it has accumulated since its last esp_task_wdt_reset never
\* exceeds the 5000 ms deadline, however many allocations fail in a row.
C4_RefreshBeforeBackoff == since_reset[2] <= WDT_TIMEOUT_MS

\* Task3's step: the poll, which starts its delay
PollStep == timer[3] = 0 /\ timer'[3] > 0

\* C5: the poll clears exactly the bits it returns: the event group after it
\* is the event group before it minus the returned bits, and every cleared
\* bit is in the mask and was returned.
C5_PollClearsWhatItReturns ==
    [][PollStep =>
        LET returned == WaitBitsReturn(event_supervisor)
            cleared == event_supervisor \ event_supervisor'
        IN /\ event_supervisor' = event_supervisor \ returned
           /\ cleared \subseteq WaitMask
           /\ cleared = returned]_vars

\* C5 witness: at time 0 Task1 set BIT_TASK1_OK, then Task3 polled and
\* cleared it, then Task2 set BIT_TASK2_OK, which is still set
C5_Witness ==
    /\ timed /\ value = 1 /\ timer[1] = T1Period /\ timer[3] = T3Period
    /\ event_supervisor = {BIT_TASK2_OK}

\* C6: Task2 reaches esp_restart only in an iteration whose miss brought
\* timeout from 29 to 30, after setting BIT_TASK2_RESTART and freeing the slot;
\* esp_restart does not return: nothing changes afterwards.
C6_RestartOnlyAtThirty ==
    /\ [](pc2 \in {"aggressive", "restart"} =>
            timeout = 30 /\ before = 29 /\ BIT_TASK2_OK \notin acts)
    /\ [](pc2 = "restart" => BIT_TASK2_RESTART \in acts /\ ptr = "freed")
    /\ [](halted = "esp_restart" => pc2 = "restart")
    /\ [][(pc2 = "aggressive" /\ pc2' # "aggressive") =>
            pc2' = "restart" /\ BIT_TASK2_RESTART \in event_supervisor']_vars
    /\ [][halted = "esp_restart" => UNCHANGED vars]_vars

\* C6 witness: the process restarted
C6_Witness == halted = "esp_restart" /\ timeout = 30 /\ ptr = "freed"

\* C7: each Task1 cycle sets exactly one bit: the send on a queue of Capacity
\* records leaves the queue unchanged and the cycle sets BIT_TASK1_FAIL; any
\* other send appends value at the tail and the cycle sets BIT_TASK1_OK.
C7_OkXorFull ==
    /\ [][(pc1 = "send" /\ pc1' # "send") =>
            IF Len(fila) = Capacity
              THEN pc1' = "fail" /\ fila' = fila
              ELSE pc1' = "ok" /\ fila' = fila \o <<value>>]_vars
    /\ [][(pc1 = "fail" /\ pc1' # "fail") =>
            pc1' = "send" /\ fila' = fila
            /\ event_supervisor' = event_supervisor \cup {BIT_TASK1_FAIL}]_vars
    /\ [][(pc1 = "ok" /\ pc1' # "ok") =>
            pc1' = "send" /\ fila' = fila
            /\ event_supervisor' = event_supervisor \cup {BIT_TASK1_OK}]_vars

\* C7 witness: a send found the queue full, and the bit of the last delivery
\* has been cleared meanwhile
C7_Witness ==
    pc1 = "fail" /\ Len(fila) = Capacity /\ BIT_TASK1_OK \notin event_supervisor

\* C8: the k-th xQueueSend attempts k - 1; value grows by 1 at the end of
\* every cycle, delivered or dropped; the queue never holds a value that is
\* still to be attempted, nor the value just dropped.
C8_ValueAlwaysAdvances ==
    /\ [](value = IF pc1 = "send" THEN attempts ELSE attempts - 1)
    /\ [](\A i \in 1..Len(fila) :
            IF pc1 = "ok" THEN fila[i] <= value ELSE fila[i] < value)
    /\ [][(pc1 # "send" /\ pc1' = "send") => value' = value + 1]_vars
    /\ [][(pc1 = "send" /\ pc1' # "send") =>
            value' = value /\ attempts' = attempts + 1]_vars

\* C8 witness: with a queue of 1 still holding 0, value 1 was dropped and
\* Task1 moved on to 2
C8_Witness == variant = "hello" /\ fila = <<0>> /\ value = 2 /\ pc1 = "send"

\* C9: the iteration whose allocation fails changes neither timeout nor the
\* queue nor the event group, and records no action.
C9_AllocFailureFrame ==
    [][AllocFailStep =>
        /\ UNCHANGED <<timeout, fila, event_supervisor, halted>>
        /\ acts' = {}]_vars

\* C9 witness: an allocation failed while the counter, the queue and the
\* event group were all non-trivial
C9_Witness ==
    /\ timed /\ pc2 = "malloc" /\ since_reset[2] = T2Period + T2Backoff
    /\ timeout > 0 /\ fila # <<>> /\ event_supervisor # {}

\* C10: with the queue of 1 and the periods kept, as long as Task1 still
\* produces, timeout stays below 10, no escalation bit is set, the queue is
\* not reset and Task2 does not restart the process.
C10_NoEscalationInSteadyState ==
    (timed /\ variant = "hello" /\ value < MaxValue) =>
        /\ timeout < LightMisses
        /\ pc2 \in {"malloc", "receive", "ok"}
        /\ acts \subseteq {BIT_TASK2_OK}
        /\ event_supervisor \cap EscalationBits = {}
        /\ halted # "esp_restart"

\* C10 witness: Task1 is in its last-but-one cycle and Task2 has just missed
C10_Witness ==
    /\ timed /\ variant = "hello" /\ value = MaxValue - 1
    /\ pc2 = "malloc" /\ timeout = 1 /\ since_reset[2] = T2Period

\* Task2 has not taken a step yet: it is still before its first malloc
ConsumerStalled == cycle = 0 /\ pc2 = "malloc"

\* C11: with the queue of 10 and Task2 taking no step, Task1's sends 1..10
\* succeed, set BIT_TASK1_OK and fill the queue with 0..9; every later send
\* fails, sets BIT_TASK1_FAIL and leaves the queue at those 10 records; each
\* cycle ends with value + 1 and Task1 back at its send.
C11_StalledConsumerFillsThenDrops ==
    /\ []((variant = "STR" /\ ConsumerStalled) =>
            LET sent == IF attempts <= 10 THEN attempts ELSE 10
            IN /\ Len(fila) = sent
               /\ \A i \in 1..sent : fila[i] = i - 1
               /\ (pc1 = "ok" => attempts <= 10)
               /\ (pc1 = "fail" => attempts > 10 /\ Len(fila) = 10))
    /\ [][(variant = "STR" /\ ConsumerStalled /\ pc1 = "send" /\ pc1' # "send") =>
            pc1' = (IF attempts < 10 THEN "ok" ELSE "fail")]_vars
    /\ [][(variant = "STR" /\ ConsumerStalled /\ pc1 # "send" /\ pc1' = "send") =>
            /\ event_supervisor' = event_supervisor \cup
                   {IF attempts <= 10 THEN BIT_TASK1_OK ELSE BIT_TASK1_FAIL}
            /\ fila' = fila
            /\ value' = value + 1]_vars

\* C11 witness: Task2 still has not run, the 11th send failed on the full
\* queue and Task1 has finished that cycle
C11_Witness ==
    /\ variant = "STR" /\ ConsumerStalled
    /\ attempts = 11 /\ value = 11 /\ pc1 = "send"
    /\ Len(fila) = 10 /\ BIT_TASK1_FAIL \in event_supervisor

\* The bits that do not announce a restart
NonFatalBits == AllBits \ {BIT_TASK2_RESTART}

\* The line Task3 prints for a bit
C12_LineOf(b) ==
    CASE b = BIT_TASK1_OK -> "Task1 OK"
      [] b = BIT_TASK1_FAIL -> "Task1 falhou no envio"
      [] b = BIT_TASK2_OK -> "Task2 OK"
      [] b = BIT_TASK2_TIMEOUT -> "Task2 em timeout leve"
      [] b = BIT_TASK2_RESET -> "Task2 resetou a fila"
      [] b = BIT_TASK2_RESTART -> "Task2 reiniciou o sistema"

\* C12: a non-fatal bit that is set is eventually cleared by a poll, unless
\* the process restarts first; a poll prints one line for each bit that was
\* set, however often it was set since the last poll, and none for a bit
\* that was not set, and leaves no non-fatal bit set.
C12_FlagsReportedAtNextPoll ==
    /\ \A b \in NonFatalBits :
          (b \in event_supervisor) ~> (b \notin event_supervisor \/ halted # "no")
    /\ [][PollStep =>
            LET bits == WaitBitsReturn(event_supervisor)
                out == Lines(bits)
            IN /\ Len(out) = Cardinality(bits)
               /\ \A b \in AllBits :
                     (b \in bits) = (\E i \in 1..Len(out) : out[i] = C12_LineOf(b))
               /\ event_supervisor' \cap NonFatalBits = {}]_vars

\* C12 witness: Task3 polled at time 0 and is due again at 2000; meanwhile
\* Task1 has set BIT_TASK1_OK at 1000 and at 2000
C12_Witness ==
    /\ timed /\ variant = "STR" /\ value = 3 /\ timer[1] = T1Period
    /\ timer[3] = 0 /\ since_reset[3] = T3Period
    /\ BIT_TASK1_OK \in event_supervisor

\* The end-of-cycle vTaskDelay of each task
C13_Period(t) ==
    CASE t = 1 -> T1Period [] t = 2 -> T2Period [] t = 3 -> T3Period
      [] t = 4 -> T4Period

\* C13: every step that puts a task to sleep, other than Task2's failed
\* allocation, has just reset the watchdog and sleeps for the task's period,
\* which is below the 5000 ms deadline; only the failed allocation takes a
\* task's time since its last reset above its period; and when the watchdog
\* fires it is Task2, after failed allocations, that is past the deadline.
C13_WatchdogNeverExpires ==
    /\ [][\A t \in Tasks :
            (timer[t] = 0 /\ timer'[t] > 0 /\ ~(t = 2 /\ AllocFailStep)) =>
                /\ timer'[t] = C13_Period(t)
                /\ since_reset'[t] = C13_Period(t)
                /\ C13_Period(t) < WDT_TIMEOUT_MS]_vars
    /\ [][\A t \in Tasks :
            (since_reset'[t] # since_reset[t] /\ since_reset'[t] > C13_Period(t))
                => (t = 2 /\ AllocFailStep)]_vars
    /\ [](halted = "wdt" =>
            /\ since_reset[2] > WDT_TIMEOUT_MS
            /\ \A t \in Tasks \ {2} : since_reset[t] <= C13_Period(t))

\* C13 witness: 6000 ms after start-up every task has refreshed in each of
\* its cycles and nothing has expired
C13_Witness ==
    /\ timed /\ halted = "no" /\ value = 7
    /\ since_reset = <<T1Period, T2Period, T3Period, T4Period>>
    /\ timer = <<T1Period, T2Period, T3Period, T4Period>>

\* C14: no slot is released twice; Task2 holds no slot while it sleeps at the
\* end of a cycle; it holds the slot from malloc until the free of that
\* iteration; in the iteration that restarts the slot is released before
\* esp_restart and is not touched again.
C14_SlotReleasedExactlyOnce ==
    /\ [](ptr # "double free")
    /\ [](pc2 = "malloc" => ptr = "NULL")
    /\ [](pc2 \in {"receive", "ok", "light", "moderate", "moderate_flag",
                   "aggressive"} => ptr = "held")
    /\ [](pc2 = "restart" => ptr = "freed")
    /\ [][ptr = "freed" => ptr' = "freed"]_vars
    /\ [][(ptr = "held" /\ ptr' # "held") =>
            (ptr' = "NULL" /\ pc2' = "malloc") \/
            (ptr' = "freed" /\ pc2' = "restart")]_vars

\* C14 witness: in the iteration of the 30th miss the slot has been released
\* and esp_restart is about to be called
C14_Witness ==
    /\ variant = "hello" /\ pc2 = "restart" /\ halted = "no" /\ ptr = "freed"

\* Task1 has made all the cycles the model gives it
ProducerDone == pc1 = "send" /\ value >= MaxValue

\* C15: as long as the process runs, whatever the queue and the event group
\* hold, each of Task1, Task2 and Task3 that is not in its own vTaskDelay has
\* a step it can take (Task1 until it has made its MaxValue cycles), and some
\* step of the system is possible; when every ready task eventually runs,
\* Task2 and Task3 go to sleep and wake up again and again and Task1 makes
\* all its cycles, or else the process restarts.
C15_NoTaskWaits ==
    /\ [](Running =>
            /\ timer[1] = 0 => (ENABLED Task1Step) \/ ProducerDone
            /\ timer[2] = 0 => ENABLED Task2Step
            /\ timer[3] = 0 => ENABLED T3Poll
            /\ ENABLED NextTimed)
    /\ []<>(timer[2] = 0 \/ halted # "no")
    /\ []<>(timer[2] > 0 \/ halted # "no")
    /\ []<>(timer[3] = 0 \/ halted # "no")
    /\ []<>(timer[3] > 0 \/ halted # "no")
    /\ <>(ProducerDone \/ halted # "no")

\* C15 witness: the queue of 1 is full, bits of both tasks are set, Task1 is
\* about to signal the failed send and Task2 is between its malloc and its
\* receive
C15_Witness ==
    /\ timed /\ variant = "hello" /\ halted = "no" /\ Len(fila) = CapacityHello
    /\ pc1 = "fail" /\ pc2 = "receive"
    /\ {BIT_TASK1_OK, BIT_TASK2_OK} \subseteq event_supervisor

\* C16: in the STR variant timeout is in 0..19 whenever Task2 sleeps at the
\* end of a cycle and never exceeds 20; the miss == 30 branch is never
\* entered, BIT_TASK2_RESTART is never set and Task2 never restarts the
\* process; in a run of misses only, iteration k ends with timeout = k % 20,
\* having set TIMEOUT when k % 20 = 10, reset the queue and set RESET when
\* k % 20 = 0, and done nothing otherwise.
C16_RestartUnreachableWithReset ==
    /\ variant = "STR" =>
          /\ (pc2 = "malloc" => timeout \in 0..19)
          /\ timeout <= ModerateMisses
          /\ pc2 \notin {"aggressive", "restart"}
          /\ BIT_TASK2_RESTART \notin event_supervisor
          /\ halted # "esp_restart"
    /\ (variant = "STR" /\ cycle >= 1 /\ pc2 = "malloc") =>
          /\ timeout = cycle % 20
          /\ acts = C2_VariantActs(cycle)

\* C16 witness: the 40th iteration of a run of misses has reset the queue for
\* the second time and the counter is back at 0
C16_Witness ==
    /\ variant = "STR" /\ cycle = 40 /\ pc2 = "malloc" /\ timeout = 0
    /\ acts = {"QRESET", BIT_TASK2_RESET}

\* C17: the queue is strictly increasing from head to tail and everything in
\* it is greater than the last value received; each receive takes the head,
\* which is greater than the value received before it; the queue changes
\* only by a send that appends value, by a receive or by xQueueReset, and a
\* send appends nothing only when the queue is full: a value that is never
\* received was dropped on a full queue or discarded by the reset.
C17_ValuesInOrder ==
    /\ [](\A i \in 1..(Len(fila) - 1) : fila[i] < fila[i + 1])
    /\ [](\A i \in 1..Len(fila) : received < fila[i])
    /\ [][received' # received =>
            /\ pc2 = "receive" /\ pc2' = "ok"
            /\ received' = Head(fila)
            /\ received' > received]_vars
    /\ [][fila' # fila =>
            \/ pc1 = "send" /\ pc1' = "ok" /\ fila' = Append(fila, value)
            \/ pc2 = "receive" /\ pc2' = "ok" /\ fila' = Tail(fila)
                 /\ received' = Head(fila)
            \/ pc2 = "moderate" /\ pc2' = "moderate_flag" /\ fila' = <<>>]_vars
    /\ [][(pc1 = "send" /\ pc1' # "send" /\ fila' = fila) =>
            pc1' = "fail" /\ Len(fila) = Capacity]_vars

\* C17 witness: with the queue of 1, 0 was received, 1 was lost and Task2 is
\* about to receive 2
C17_Witness ==
    /\ variant = "hello" /\ received = 0 /\ fila = <<2>> /\ value = 3
    /\ pc1 = "send" /\ pc2 = "receive"

\* C18 as claimed: Task2 is about to call xQueueReset only in the iteration
\* whose miss brought timeout to exactly 20, and the queue is empty then.
C18_Original ==
    pc2 = "moderate" =>
        timeout = ModerateMisses /\ before = ModerateMisses - 1 /\ fila = <<>>

\* C18 amended: Task2 is about to call xQueueReset only in the iteration
\* whose miss brought timeout from 19 to 20; the queue was empty at the
\* failed receive of that iteration; the reset leaves it empty; what it
\* discards are values Task1 sent after that failed receive, all of them
\* newer than the last value received.
C18_Amended ==
    /\ [](pc2 = "moderate" =>
            /\ timeout = ModerateMisses /\ before = ModerateMisses - 1
            /\ \A i \in 1..Len(fila) : fila[i] > received /\ fila[i] <= value)
    /\ [][(pc2 = "receive" /\ pc2' = "moderate") =>
            fila = <<>> /\ fila' = <<>>]_vars
    /\ [][(pc2 = "moderate" /\ pc2' # "moderate") =>
            pc2' = "moderate_flag" /\ fila' = <<>>]_vars
    /\ [][(pc2 = "moderate" /\ pc2' = "moderate" /\ fila' # fila) =>
            pc1 = "send" /\ pc1' = "ok" /\ fila' = Append(fila, value)]_vars

\* C18 witness: between the failed receive of the 20th miss and the reset
\* Task1 has delivered two records and signalled BIT_TASK1_OK for both
C18_Witness ==
    /\ variant = "STR" /\ pc2 = "moderate" /\ Len(fila) = 2 /\ pc1 = "send"

\* C19 as claimed: in the hello variant, when esp_restart takes effect Task3
\* has already polled BIT_TASK2_RESTART, which only a poll clears: the bit is
\* no longer set.
C19_RestartReportedBeforeRestart ==
    (variant = "hello" /\ halted = "esp_restart") =>
        BIT_TASK2_RESTART \notin event_supervisor
====
